---- MODULE Spec2Model ----
(***************************************************************************)
(* atrade1.py: the order monitor (poll_order_status), the gateway calls    *)
(* it makes through AlpacaClient, and the OCC symbol parse it relies on.   *)
(* One action per step of the monitoring loop; the broker and the user are *)
(* the environment.                                                        *)
(***************************************************************************)
EXTENDS Integers, Sequences, FiniteSets, TLC

VARIABLES
    pc,              \* position in poll_order_status
    order_id,        \* local order_id (line 261, 343, 375)
    otm,             \* the order_to_monitor dict (the TrackedOrder)
    old_settings,    \* termios settings saved at line 267 ("unset" before)
    term,            \* the terminal's current input mode
    new_price,       \* local new_price (lines 315, 370)
    order_response,  \* the last response of the monitoring get_order (line 388)
    result,          \* the value of the executed return statement, or None
    exc,             \* the exception in flight, or None
    broker,          \* broker side: order id -> status ("absent": no such order)
    nextId,          \* the id the broker gives the next order it creates
    clock,           \* time.time(), in seconds
    cmd,             \* history: the A/Q command read in this iteration and what it saw
    log,             \* history: gateway calls that command issued, in order
    reported,        \* history: terminal statuses get_order has reported for order_id
    commanded,       \* history: an A or Q key has been read in this session
    keyChecked,      \* history: this iteration has made its keystroke check
    trip,            \* position in atrade1_main / place_and_monitor_order / adoption
    frame,           \* the locals of the function trip is in
    hist,            \* history: the place calls made outside the monitor and the
                     \* returns of the monitor, in order
    fn,              \* the pure function last applied ("none" before any)
    arg,             \* its arguments
    out              \* its value

vars == <<pc, order_id, otm, old_settings, term, new_price, order_response,
          result, exc, broker, nextId, clock, cmd, log, reported, commanded,
          keyChecked, trip, frame, hist, fn, arg, out>>

\* What poll_order_status has no access to.
others == <<trip, frame, hist, fn, arg, out>>

\* The variables of poll_order_status and of the broker.
session == <<pc, order_id, otm, old_settings, term, new_price, order_response,
             result, exc, broker, nextId, clock, cmd, log, reported, commanded,
             keyChecked>>

\* The variables of the function applications.
applied == <<fn, arg, out>>

None == "None"

-----------------------------------------------------------------------------
(* Bounds of the model *)

\* Orders the broker can hold in one run (the tracked one and its replacements).
MaxOrders == 3
\* The clock saturates here.
MaxClock == 3

-----------------------------------------------------------------------------
(* Statuses (spec section 6; atrade1.py lines 295, 435, 438) *)

non_replaceable_statuses ==
    {"accepted", "pending_new", "pending_cancel", "pending_replace",
     "filled", "canceled", "expired", "rejected"}

TerminalStatuses == {"filled", "canceled", "expired", "rejected"}

Statuses == non_replaceable_statuses \cup {"new", "partially_filled", "replaced"}

\* Mutant of upper: the status is returned as it came, without .upper().
upper_omitted(s) == s

\* str.upper() on the status strings that are returned (lines 437, 440).
upper(s) ==
    CASE s = "filled"   -> "FILLED"
      [] s = "canceled" -> "CANCELED"
      [] s = "expired"  -> "EXPIRED"
      [] s = "rejected" -> "REJECTED"
      [] OTHER          -> "OTHER_UPPER"

-----------------------------------------------------------------------------
(* parse_occ_symbol, on symbols as sequences of characters *)

Digits == {"0", "1", "2", "3", "4", "5", "6", "7", "8", "9"}

DigitVal(c) ==
    CASE c = "0" -> 0 [] c = "1" -> 1 [] c = "2" -> 2 [] c = "3" -> 3
      [] c = "4" -> 4 [] c = "5" -> 5 [] c = "6" -> 6 [] c = "7" -> 7
      [] c = "8" -> 8 [] c = "9" -> 9

RECURSIVE NumVal(_)
\* int() of a string of digits
NumVal(s) ==
    IF Len(s) = 0 THEN 0
    ELSE 10 * NumVal(SubSeq(s, 1, Len(s) - 1)) + DigitVal(s[Len(s)])

AllDigits(s) == \A i \in 1..Len(s) : s[i] \in Digits

DaysInMonth(y, m) ==
    IF m \in {4, 6, 9, 11} THEN 30
    ELSE IF m = 2 THEN (IF y % 4 = 0 /\ (y % 100 # 0 \/ y % 400 = 0) THEN 29 ELSE 28)
    ELSE 31

DigitChar(d) ==
    CASE d = 0 -> "0" [] d = 1 -> "1" [] d = 2 -> "2" [] d = 3 -> "3"
      [] d = 4 -> "4" [] d = 5 -> "5" [] d = 6 -> "6" [] d = 7 -> "7"
      [] d = 8 -> "8" [] d = 9 -> "9"

RECURSIVE Decimal(_)
\* str() of a natural number
Decimal(n) ==
    IF n < 10 THEN <<DigitChar(n)>>
    ELSE Decimal(n \div 10) \o <<DigitChar(n % 10)>>

RECURSIVE Zeros(_)
Zeros(n) == IF n <= 0 THEN <<>> ELSE <<"0">> \o Zeros(n - 1)

\* format(n, "0{width}d"): zero-padded to the width, the sign first and counted
\* in the width; a number that needs more characters is not cut.
ZeroPadded(n, width) ==
    IF n < 0
    THEN <<"-">> \o Zeros(width - 1 - Len(Decimal(0 - n))) \o Decimal(0 - n)
    ELSE Zeros(width - Len(Decimal(n))) \o Decimal(n)

\* The month field of strptime: 1..12 written with one or two digits, else 0.
MonthField(f) ==
    IF Len(f) \in 1..2 /\ AllDigits(f) /\ NumVal(f) \in 1..12 THEN NumVal(f) ELSE 0

\* The day field of strptime: 1..31 written with one or two digits, or a space
\* and one digit, else 0.
DayField(f) ==
    IF Len(f) \in 1..2 /\ AllDigits(f) /\ NumVal(f) \in 1..31 THEN NumVal(f)
    ELSE IF Len(f) = 2 /\ f[1] = " " /\ f[2] \in Digits \ {"0"} THEN DigitVal(f[2])
    ELSE 0

\* The datetime of the fields, or ValueError (ok = FALSE).
Date(y, m, d) ==
    IF y >= 1 /\ m \in 1..12 /\ d >= 1 /\ d <= DaysInMonth(y, m)
    THEN [ok |-> TRUE, year |-> y, month |-> m, day |-> d]
    ELSE [ok |-> FALSE]

\* datetime.strptime(s, "%y%m%d") on the six characters rest[:6], the first a
\* digit: the date, or ValueError (ok = FALSE). %y maps 00..68 to 20xx and
\* 69..99 to 19xx.
strptime_yymmdd(s) ==
    IF Len(s) # 6 \/ ~AllDigits(SubSeq(s, 1, 2)) THEN [ok |-> FALSE]
    ELSE LET yy == NumVal(SubSeq(s, 1, 2))
             y  == IF yy <= 68 THEN 2000 + yy ELSE 1900 + yy
             mf == SubSeq(s, 3, 4)
         IN IF ~AllDigits(mf) THEN [ok |-> FALSE]
            ELSE Date(y, MonthField(mf), DayField(SubSeq(s, 5, 6)))

\* datetime.strptime(s, "%Y-%m-%d"): four digits, "-", the month field, "-",
\* the day field, and nothing else; the date, or ValueError (ok = FALSE).
strptime_iso(s) ==
    LET n == Len(s)
        k == IF n >= 7 /\ s[7] = "-" THEN 7
             ELSE IF n >= 8 /\ s[8] = "-" THEN 8 ELSE 0
    IN IF n < 8 \/ k = 0 THEN [ok |-> FALSE]
       ELSE IF ~AllDigits(SubSeq(s, 1, 4)) \/ s[5] # "-" THEN [ok |-> FALSE]
       ELSE Date(NumVal(SubSeq(s, 1, 4)),
                 MonthField(SubSeq(s, 6, k - 1)),
                 DayField(SubSeq(s, k + 1, n)))

\* strftime("%Y-%m-%d") and strftime("%y%m%d") of a date of the years 1000..9999.
strftime_iso(date) ==
    Decimal(date.year) \o <<"-">> \o ZeroPadded(date.month, 2)
        \o <<"-">> \o ZeroPadded(date.day, 2)

strftime_yymmdd(date) ==
    ZeroPadded(date.year % 100, 2) \o ZeroPadded(date.month, 2) \o ZeroPadded(date.day, 2)

\* A float that is a strike: th thousandths (the double nearest to th / 1000),
\* nan, or inf.
Thousandths(th) == [nan |-> FALSE, inf |-> FALSE, th |-> th]
FloatNaN == [nan |-> TRUE, inf |-> FALSE, th |-> 0]
FloatInf == [nan |-> FALSE, inf |-> TRUE, th |-> 0]

\* float(s) / 1000.0 on the strike part of a symbol: the float (ok = TRUE) or
\* ValueError (ok = FALSE). Covers the texts made of digits, "-" and letters:
\* digits with an optional sign are a number, "nan" is the float nan, and any
\* other such text, the empty one included, is a ValueError.
float_strike(s) ==
    IF Len(s) > 0 /\ AllDigits(s) THEN [ok |-> TRUE, v |-> Thousandths(NumVal(s))]
    ELSE IF Len(s) > 1 /\ s[1] = "-" /\ AllDigits(Tail(s))
         THEN [ok |-> TRUE, v |-> Thousandths(0 - NumVal(Tail(s)))]
    ELSE IF s = <<"n", "a", "n">> THEN [ok |-> TRUE, v |-> FloatNaN]
    ELSE [ok |-> FALSE]

\* Index of the first digit of the symbol, 0 when it has none (lines 135-141).
FirstDigit(symbol) ==
    IF \E i \in 1..Len(symbol) : symbol[i] \in Digits
    THEN CHOOSE i \in 1..Len(symbol) :
            /\ symbol[i] \in Digits
            /\ \A j \in 1..(i - 1) : symbol[j] \notin Digits
    ELSE 0

\* The parsed dict (ok = TRUE), or Python's None (ok = FALSE).
parse_occ_symbol(symbol) ==
    LET i == FirstDigit(symbol) IN
    IF i = 0 THEN [ok |-> FALSE]
    ELSE LET underlying == SubSeq(symbol, 1, i - 1)
             rest       == SubSeq(symbol, i, Len(symbol))
         IN IF Len(rest) < 7 THEN [ok |-> FALSE]               \* IndexError, rest[6]
            ELSE LET expiry == strptime_yymmdd(SubSeq(rest, 1, 6))
                     strike == float_strike(SubSeq(rest, 8, Len(rest)))
                 IN IF ~expiry.ok \/ ~strike.ok THEN [ok |-> FALSE]
                    ELSE [ok              |-> TRUE,
                          underlying      |-> underlying,
                          expiration_date |-> strftime_iso(expiry),
                          type            |-> IF rest[7] = "C" THEN "call" ELSE "put",
                          strike_price    |-> strike.v]

-----------------------------------------------------------------------------
(* create_occ_symbol *)

\* str.upper() on one character.
UpperChar(c) ==
    CASE c = "a" -> "A" [] c = "b" -> "B" [] c = "c" -> "C" [] c = "d" -> "D"
      [] c = "e" -> "E" [] c = "f" -> "F" [] c = "g" -> "G" [] c = "h" -> "H"
      [] c = "i" -> "I" [] c = "j" -> "J" [] c = "k" -> "K" [] c = "l" -> "L"
      [] c = "m" -> "M" [] c = "n" -> "N" [] c = "o" -> "O" [] c = "p" -> "P"
      [] c = "q" -> "Q" [] c = "r" -> "R" [] c = "s" -> "S" [] c = "t" -> "T"
      [] c = "u" -> "U" [] c = "v" -> "V" [] c = "w" -> "W" [] c = "x" -> "X"
      [] c = "y" -> "Y" [] c = "z" -> "Z"
      [] OTHER -> c

RECURSIVE Upper(_)
\* str.upper() on a sequence of characters
Upper(s) == IF Len(s) = 0 THEN <<>> ELSE <<UpperChar(Head(s))>> \o Upper(Tail(s))

\* Index of the "." of a text, 0 when it has none.
PointAt(s) ==
    IF \E i \in 1..Len(s) : s[i] = "." THEN CHOOSE i \in 1..Len(s) : s[i] = "." ELSE 0

\* The digits, with an optional fraction of up to three digits, as thousandths;
\* -1 when the text is not of that form.
Unsigned(s) ==
    LET p    == PointAt(s)
        whole == IF p = 0 THEN s ELSE SubSeq(s, 1, p - 1)
        frac  == IF p = 0 THEN <<>> ELSE SubSeq(s, p + 1, Len(s))
    IN IF AllDigits(whole) /\ AllDigits(frac) /\ Len(whole) + Len(frac) > 0 /\ Len(frac) <= 3
       THEN 1000 * NumVal(whole) + NumVal(frac \o Zeros(3 - Len(frac)))
       ELSE -1

\* float(s) on a text: the float (ok = TRUE) or ValueError (ok = FALSE). Covers
\* the decimal texts of up to three fraction digits with an optional "-",
\* "nan" and "inf"; the other texts drawn here are words float() rejects.
float_text(s) ==
    IF s = <<"n", "a", "n">> THEN [ok |-> TRUE, v |-> FloatNaN]
    ELSE IF s = <<"i", "n", "f">> THEN [ok |-> TRUE, v |-> FloatInf]
    ELSE IF Len(s) > 1 /\ s[1] = "-" /\ Unsigned(Tail(s)) >= 0
         THEN [ok |-> TRUE, v |-> Thousandths(0 - Unsigned(Tail(s)))]
    ELSE IF Unsigned(s) >= 0 THEN [ok |-> TRUE, v |-> Thousandths(Unsigned(s))]
    ELSE [ok |-> FALSE]

\* The strike argument is a text, [text |-> s], or a float, [float |-> v].
float_of(strike) ==
    IF "text" \in DOMAIN strike THEN float_text(strike.text)
    ELSE [ok |-> TRUE, v |-> strike.float]

\* The th below 4000 for which the double product (th / 1000) * 1000 falls just
\* under th, so that int() of it is th - 1 (IEEE 754 binary64, round to nearest).
TruncatedProducts ==
    {1001 + 2 * i : i \in 0..11} \cup {2002 + 4 * i : i \in 0..11}

Abs(n) == IF n < 0 THEN 0 - n ELSE n

\* int(x * 1000) for the float x of th thousandths: exact but for the products
\* above, where int() cuts towards zero. Holds for |th| < 4000 and for the whole
\* strikes drawn here (190, 200, 455.5).
int_times_1000(th) ==
    IF Abs(th) \in TruncatedProducts
    THEN (IF th < 0 THEN th + 1 ELSE th - 1)
    ELSE th

Returned(symbol) == [ok |-> TRUE, exc |-> None, symbol |-> symbol]
ReturnedNone == [ok |-> FALSE, exc |-> None]
Raised(e) == [ok |-> FALSE, exc |-> e]

\* The symbol (ok = TRUE), Python's None (ok = FALSE, exc = None), or the
\* exception that leaves the function: only ValueError is caught at line 179,
\* and int() of an infinite float raises OverflowError.
create_occ_symbol(underlying, expiry_date, option_type, strike) ==
    LET expiry == strptime_iso(expiry_date)
        f      == float_of(strike)
    IN IF ~expiry.ok THEN ReturnedNone
       ELSE IF ~f.ok \/ f.v.nan THEN ReturnedNone
       ELSE IF f.v.inf THEN Raised("OverflowError")
       ELSE LET strike_price_formatted == ZeroPadded(int_times_1000(f.v.th), 8)
                opt_type == Upper(option_type)
            IN IF opt_type \notin {<<"C">>, <<"P">>} THEN ReturnedNone
               ELSE Returned(Upper(underlying) \o strftime_yymmdd(expiry)
                                 \o opt_type \o strike_price_formatted)

-----------------------------------------------------------------------------
(* The inputs of a run *)

\* SPY250321P00455500, and a plain ticker as an adopted order may carry.
OptionSymbol ==
    <<"S","P","Y","2","5","0","3","2","1","P","0","0","4","5","5","5","0","0">>
PlainSymbol == <<"S","P","Y">>

\* Keys the user may press while the monitor listens.
Keys == {"a", "A", "q", "Q", "x"}

\* Answers to "Are you sure you want to cancel this order? (y/n)".
ConfirmInputs == {"y", "Y", "n", "yes"}

\* Answers to "Enter new limit price (or 'q' to cancel adjustment)".
PriceInputs == {"q", "Q", "abc", "nan", "2", "3"}

\* str.lower() on the prompts' answers.
lower(s) ==
    CASE s = "Y" -> "y"
      [] s = "Q" -> "q"
      [] s = "S" -> "s"
      [] OTHER   -> s

\* A float: a number, or the float nan.
Num(v) == [nan |-> FALSE, val |-> v]
NaN == [nan |-> TRUE, val |-> 0]

\* Python's float() on the price answers: the float (ok = TRUE), or ValueError
\* (ok = FALSE). float("nan") is the float nan, not an error.
float(s) ==
    CASE s = "2"   -> [ok |-> TRUE, v |-> Num(2)]
      [] s = "3"   -> [ok |-> TRUE, v |-> Num(3)]
      [] s = "nan" -> [ok |-> TRUE, v |-> NaN]
      [] OTHER     -> [ok |-> FALSE]

-----------------------------------------------------------------------------
(* The gateway: AlpacaClient's calls and the broker behind them.            *)
(* _request turns every transport or HTTP failure into success = False, so  *)
(* each call yields a response and never raises.                            *)

OrderIds == 1..MaxOrders

Min(a, b) == IF a < b THEN a ELSE b

\* Statuses the broker gives an order it has just created.
NewOrderStatuses == {"pending_new", "accepted", "new"}

\* The statuses an order may move to next, of its own accord, at the broker.
\* pending_cancel follows a cancel request only (cancel_order); a request the
\* broker does not carry out leaves the order working or filled. filled,
\* canceled, expired, rejected and replaced are final.
BrokerNext(s) ==
    CASE s = "pending_new"      -> {"accepted", "new", "rejected", "canceled"}
      [] s = "accepted"         -> {"new", "rejected", "expired", "canceled"}
      [] s = "new"              -> {"partially_filled", "filled", "expired", "canceled"}
      [] s = "partially_filled" -> {"filled", "expired", "canceled"}
      [] s = "pending_cancel"   -> {"canceled", "filled", "new", "partially_filled"}
      [] s = "pending_replace"  -> {"new", "partially_filled", "filled", "canceled"}
      [] OTHER                  -> {}

\* get_order: the order's status, or a failed request (no "data" in the response).
get_order(id) ==
    {[success |-> TRUE, status |-> broker[id]],
     [success |-> FALSE, status |-> None]}

\* cancel_order: the broker accepts a cancel request for a working order only,
\* and the order is then pending_cancel until the broker settles it.
cancel_order(id) ==
    {[success |-> FALSE, broker |-> broker]}
    \cup (IF broker[id] \in Statuses \ (TerminalStatuses \cup {"replaced"})
          THEN {[success |-> TRUE, broker |-> [broker EXCEPT ![id] = "pending_cancel"]]}
          ELSE {})

\* place_order: a new order under a fresh id, or a failed request. The broker
\* takes no order with a limit price of nan.
place_order(symbol, qty, side, order_type, time_in_force, limit_price) ==
    {[success |-> FALSE, id |-> 0, broker |-> broker]}
    \cup (IF nextId <= MaxOrders /\ ~limit_price.nan
          THEN {[success |-> TRUE, id |-> nextId,
                 broker |-> [broker EXCEPT ![nextId] = s]] : s \in NewOrderStatuses}
          ELSE {})

\* replace_order: the broker replaces an order in a replaceable status only. It
\* answers with the replacing order (a new id; the old order is then replaced),
\* or with data that carries no id (id = 0 here), the order changed in place.
replace_order(id, limit_price) ==
    {[success |-> FALSE, id |-> 0, broker |-> broker]}
    \cup (IF broker[id] \in {"new", "partially_filled"} /\ ~limit_price.nan
          THEN {[success |-> TRUE, id |-> 0, broker |-> broker]}
               \cup (IF nextId <= MaxOrders
                     THEN {[success |-> TRUE, id |-> nextId,
                            broker |-> [broker EXCEPT ![id] = "replaced",
                                                      ![nextId] = "new"]]}
                     ELSE {})
          ELSE {})

-----------------------------------------------------------------------------
(* The start of a run *)

\* The dict place_and_monitor_order builds (lines 471-480) has the two times;
\* the dict of an adopted order (lines 238-245) and of a closing order (lines
\* 541-548) has not.
TrackedOrders ==
    {[id |-> 1, symbol |-> OptionSymbol, quantity |-> 1, side |-> "buy", action |-> "B",
      price |-> Num(1), original_start_time |-> 0, last_interaction_time |-> 0],
     [id |-> 1, symbol |-> OptionSymbol, quantity |-> 5, side |-> "sell", action |-> "S",
      price |-> Num(1)],
     [id |-> 1, symbol |-> PlainSymbol, quantity |-> 1, side |-> "buy", action |-> "B",
      price |-> Num(1)]}

NoPrice == Num(0)

NoResponse == [success |-> FALSE, status |-> None]

NoCommand(o) ==
    [key |-> None, current_status |-> None, answer |-> None, before |-> o, done |-> TRUE]

Init ==
    /\ pc = "entry"
    /\ otm \in TrackedOrders
    /\ order_id = 0
    /\ old_settings = "unset"
    /\ term \in {"cooked", "raw"}
    /\ new_price = NoPrice
    /\ order_response = NoResponse
    /\ result = None
    /\ exc = None
    /\ broker \in {[i \in OrderIds |-> IF i = 1 THEN s ELSE "absent"] :
                      s \in Statuses \ {"replaced"}}
    /\ nextId = 2
    /\ clock = 0
    /\ cmd = NoCommand(otm)
    /\ log = <<>>
    /\ reported = {}
    /\ commanded = FALSE
    /\ keyChecked = FALSE
    /\ trip = "none" /\ frame = <<>> /\ hist = <<>>
    /\ fn = "none" /\ arg = <<>> /\ out = <<>>

-----------------------------------------------------------------------------
(* poll_order_status *)

\* time.sleep(d): the clock moves on by d seconds.
sleep(d) == clock' = Min(clock + d, MaxClock)

SleepWait == 1
SleepError == 2
SleepStatus == 3

\* char.upper() on the keys.
key_upper(c) ==
    CASE c = "a" -> "A"
      [] c = "q" -> "Q"
      [] OTHER   -> c

\* History: what a get_order response tells about the tracked order.
Observe(r) ==
    IF r.success /\ r.status \in TerminalStatuses THEN reported \cup {r.status}
    ELSE reported

\* Positions inside the try block (lines 268-442).
TryPcs ==
    {"try", "select", "q_confirm", "q_cancel", "q_resume", "a_classify",
     "car_prompt", "car_cancel", "car_wait", "car_place",
     "std_prompt", "std_replace", "a_resume", "get_order", "report"}

\* Lines 259-267: the local order_id, the two times when the dict lacks them,
\* and the saved terminal settings.
SaveSettings ==
    /\ pc = "entry"
    /\ order_id' = otm.id
    /\ otm' = IF "original_start_time" \notin DOMAIN otm
              THEN [k \in DOMAIN otm \cup {"original_start_time", "last_interaction_time"} |->
                      IF k \in DOMAIN otm THEN otm[k] ELSE clock]
              ELSE otm
    /\ old_settings' = term
    /\ pc' = "try"
    /\ cmd' = NoCommand(otm')
    /\ UNCHANGED <<others, term, new_price, order_response, result, exc, broker, nextId,
                   clock, log, reported, commanded,
                   keyChecked>>

\* Lines 268-270.
SetCbreak ==
    /\ pc = "try"
    /\ term' = "cbreak"
    /\ pc' = "select"
    /\ UNCHANGED <<others, order_id, otm, old_settings, new_price, order_response, result,
                   exc, broker, nextId, clock, cmd, log, reported, commanded,
                   keyChecked>>

\* Where the loop goes after the keystroke check (lines 274-276, 290, 387).
Dispatch(char) ==
    IF key_upper(char) = "Q" THEN "q_confirm"
    ELSE IF key_upper(char) = "A" THEN "a_classify"
    ELSE "get_order"

\* Lines 272-276, 290: the keystroke check at the top of every iteration.
Select ==
    /\ pc = "select"
    /\ \/ /\ pc' = "get_order"                       \* select() timed out: no key
          /\ cmd' = NoCommand(otm)
          /\ UNCHANGED commanded
       \/ \E char \in Keys :
            /\ pc' = Dispatch(char)
            /\ IF key_upper(char) \in {"Q", "A"}
               THEN /\ cmd' = [key |-> key_upper(char), current_status |-> None,
                               answer |-> None, before |-> otm, done |-> FALSE]
                    /\ commanded' = TRUE
               ELSE /\ cmd' = NoCommand(otm)
                    /\ UNCHANGED commanded
    /\ log' = <<>>
    /\ keyChecked' = TRUE
    /\ UNCHANGED <<others, order_id, otm, old_settings, term, new_price, order_response,
                   result, exc, broker, nextId, clock, reported>>

\* Lines 277-279, 286-287: back to the saved mode, then the confirmation prompt.
QConfirm ==
    /\ pc = "q_confirm"
    /\ term' = old_settings
    /\ \E confirm \in ConfirmInputs :
         /\ cmd' = [cmd EXCEPT !.answer = confirm]
         /\ pc' = IF lower(confirm) = "y" THEN "q_cancel" ELSE "q_resume"
    /\ UNCHANGED <<others, order_id, otm, old_settings, new_price, order_response, result,
                   exc, broker, nextId, clock, log, reported, commanded,
                   keyChecked>>

\* Mutant of QAfterCancel: the handler returns whatever the cancel response is.
QAfterCancel_unchecked(success) == "finally"

\* What the Q handler does with the cancel response (lines 281-285).
QAfterCancel(success) == IF success THEN "finally" ELSE "q_resume"

\* Lines 280-285.
QCancel ==
    /\ pc = "q_cancel"
    /\ \E r \in cancel_order(order_id) :
         /\ broker' = r.broker
         /\ log' = Append(log, [op |-> "cancel", id |-> order_id, ok |-> r.success])
         /\ pc' = QAfterCancel(r.success)
         /\ IF pc' = "finally"
            THEN /\ result' = "CANCELED"
                 /\ cmd' = [cmd EXCEPT !.done = TRUE]
            ELSE UNCHANGED <<result, cmd>>
    /\ UNCHANGED <<others, order_id, otm, old_settings, term, new_price, order_response,
                   exc, nextId, clock, reported, commanded,
                   keyChecked>>

\* Line 288.
QResume ==
    /\ pc = "q_resume"
    /\ term' = "cbreak"
    /\ pc' = "get_order"
    /\ cmd' = [cmd EXCEPT !.done = TRUE]
    /\ UNCHANGED <<others, order_id, otm, old_settings, new_price, order_response, result,
                   exc, broker, nextId, clock, log, reported, commanded,
                   keyChecked>>

\* Mutant of Workflow: every adjustment cancels and replaces.
Workflow_always_cancel(current_status) == "car_prompt"

\* Line 297: the workflow an adjustment follows, by the re-fetched status.
Workflow(current_status) ==
    IF current_status \in non_replaceable_statuses THEN "car_prompt" ELSE "std_prompt"

\* Lines 291-297: back to the saved mode, then the status re-fetch. A failed
\* request has no "data", so current_status is None.
AClassify ==
    /\ pc = "a_classify"
    /\ term' = old_settings
    /\ \E r \in get_order(order_id) :
         /\ cmd' = [cmd EXCEPT !.current_status = r.status]
         /\ reported' = Observe(r)
         /\ pc' = Workflow(r.status)
    /\ UNCHANGED <<others, order_id, otm, old_settings, new_price, order_response, result,
                   exc, broker, nextId, clock, log, commanded,
                   keyChecked>>

\* Lines 309-315 and 364-370: the answer to the price prompt. go = FALSE: the
\* adjustment is abandoned ('q', or float() raised ValueError).
ReadPrice(new_price_str) ==
    LET s == lower(new_price_str) IN
    IF s = "q" THEN [go |-> FALSE, price |-> Num(0)]
    ELSE IF ~float(s).ok THEN [go |-> FALSE, price |-> Num(0)]
    ELSE [go |-> TRUE, price |-> float(s).v]

\* Lines 299-315, 350-351 (next = "car_cancel") and 354-370, 381-382 (next =
\* "std_replace"): the quote display, then the price prompt. parse_occ_symbol
\* gives None for a symbol that does not parse, and parsed_symbol['underlying']
\* then raises TypeError. A failed chain request displays 0.00 / 0.00.
Prompt(next) ==
    IF ~parse_occ_symbol(otm.symbol).ok
    THEN /\ exc' = "TypeError"
         /\ pc' = "finally"
         /\ UNCHANGED <<new_price, cmd>>
    ELSE /\ \E new_price_str \in PriceInputs :
              LET a == ReadPrice(new_price_str) IN
              /\ cmd' = [cmd EXCEPT !.answer = new_price_str]
              /\ IF a.go
                 THEN /\ new_price' = a.price
                      /\ pc' = next
                 ELSE /\ pc' = "a_resume"
                      /\ UNCHANGED new_price
         /\ UNCHANGED exc

CarPrompt ==
    /\ pc = "car_prompt"
    /\ Prompt("car_cancel")
    /\ UNCHANGED <<others, order_id, otm, old_settings, term, order_response, result,
                   broker, nextId, clock, log, reported, commanded,
                   keyChecked>>

\* Mutant of CarAfterCancel: a failed cancel ends the session.
CarAfterCancel_fatal(success) == IF success THEN "car_wait" ELSE "finally"

\* Lines 318-322: a failed cancel ends the iteration (continue).
CarAfterCancel(success) == IF success THEN "car_wait" ELSE "select"

\* Lines 316-320.
CarCancel ==
    /\ pc = "car_cancel"
    /\ \E r \in cancel_order(order_id) :
         /\ broker' = r.broker
         /\ log' = Append(log, [op |-> "cancel", id |-> order_id, ok |-> r.success])
         /\ pc' = CarAfterCancel(r.success)
         /\ cmd' = [cmd EXCEPT !.done = (pc' = "select")]
         /\ new_price' = IF pc' = "select" THEN NoPrice ELSE new_price
    /\ UNCHANGED <<others, order_id, otm, old_settings, term, order_response,
                   result, exc, nextId, clock, reported, commanded>>
    /\ keyChecked' = (pc' # "select")          \* continue: the iteration ends

\* Mutant of CancelConfirmed: any status the query obtains ends the wait.
CancelConfirmed_any(status) == status # None

\* Mutant of CancelConfirmed: a cancel that is still pending ends the wait too.
CancelConfirmed_pending(status) == status \in {"canceled", "pending_cancel"}

\* Line 325: what ends the wait for the cancellation.
CancelConfirmed(status) == status = "canceled"

\* Lines 322-328: one round of the wait loop.
CarWait ==
    /\ pc = "car_wait"
    /\ \E r \in get_order(order_id) :
         /\ reported' = Observe(r)
         /\ IF CancelConfirmed(r.status)
            THEN /\ pc' = "car_place"
                 /\ log' = Append(log, [op |-> "saw", id |-> order_id, status |-> r.status])
                 /\ UNCHANGED clock
            ELSE /\ sleep(SleepWait)
                 /\ UNCHANGED <<pc, log>>
    /\ UNCHANGED <<others, order_id, otm, old_settings, term, new_price, order_response,
                   result, exc, broker, nextId, cmd, commanded,
                   keyChecked>>

\* Mutant of Adjusted: an adjustment restarts the order's clock too.
Adjusted_restarted(o, id, price, now) ==
    [o EXCEPT !.id = id, !.price = price, !.last_interaction_time = now,
              !.original_start_time = now + 1]

\* Mutant of Adjusted: the time of the last adjustment is left as it was.
Adjusted_stale(o, id, price, now) == [o EXCEPT !.id = id, !.price = price]

\* Lines 344-346 and 376-378: the tracked order after a successful adjustment.
Adjusted(o, id, price, now) ==
    [o EXCEPT !.id = id, !.price = price, !.last_interaction_time = now]

\* Mutant of ReplacedId: the id of the response is not taken over.
ReplacedId_kept(id, old_id) == old_id

\* Line 375, new_order_data.get("id", order_id): the id of the response, the
\* old id when it carries none (id = 0).
ReplacedId(id, old_id) == IF id # 0 THEN id ELSE old_id

\* Lines 330-348.
CarPlace ==
    /\ pc = "car_place"
    /\ \E r \in place_order(otm.symbol, otm.quantity, otm.side, "limit", "day", new_price) :
         /\ broker' = r.broker
         /\ log' = Append(log, [op |-> "place", symbol |-> otm.symbol,
                                qty |-> otm.quantity, side |-> otm.side,
                                order_type |-> "limit", time_in_force |-> "day",
                                price |-> new_price, ok |-> r.success, id |-> r.id])
         /\ IF r.success
            THEN /\ order_id' = r.id
                 /\ otm' = Adjusted(otm, r.id, new_price, clock)
                 /\ nextId' = nextId + 1
                 /\ reported' = {}
            ELSE UNCHANGED <<order_id, otm, nextId, reported>>
    /\ pc' = "a_resume"
    /\ new_price' = NoPrice             \* not read again before a prompt sets it
    /\ UNCHANGED <<others, old_settings, term, order_response, result, exc,
                   clock, cmd, commanded,
                   keyChecked>>

StdPrompt ==
    /\ pc = "std_prompt"
    /\ Prompt("std_replace")
    /\ UNCHANGED <<others, order_id, otm, old_settings, term, order_response, result,
                   broker, nextId, clock, log, reported, commanded,
                   keyChecked>>

\* Lines 371-380.
StdReplace ==
    /\ pc = "std_replace"
    /\ \E r \in replace_order(order_id, new_price) :
         /\ broker' = r.broker
         /\ log' = Append(log, [op |-> "replace", id |-> order_id, price |-> new_price,
                                ok |-> r.success, new_id |-> r.id])
         /\ IF r.success
            THEN /\ order_id' = ReplacedId(r.id, order_id)
                 /\ otm' = Adjusted(otm, order_id', new_price, clock)
                 /\ nextId' = IF r.id # 0 THEN nextId + 1 ELSE nextId
                 /\ reported' = IF r.id # 0 THEN {} ELSE reported
            ELSE UNCHANGED <<order_id, otm, nextId, reported>>
    /\ pc' = "a_resume"
    /\ new_price' = NoPrice             \* not read again before a prompt sets it
    /\ UNCHANGED <<others, old_settings, term, order_response, result, exc,
                   clock, cmd, commanded,
                   keyChecked>>

\* Line 384.
AResume ==
    /\ pc = "a_resume"
    /\ term' = "cbreak"
    /\ pc' = "get_order"
    /\ cmd' = [cmd EXCEPT !.done = TRUE]
    /\ UNCHANGED <<others, order_id, otm, old_settings, new_price, order_response, result,
                   exc, broker, nextId, clock, log, reported, commanded,
                   keyChecked>>

\* Mutant of AfterQuery: a failed status query ends the session.
AfterQuery_fatal(success) == IF success THEN "report" ELSE "finally"

\* Mutant of AfterQuery: a failed status query is retried at once, with no
\* keystroke check in between.
AfterQuery_retry(success) == IF success THEN "report" ELSE "get_order"

\* Lines 389-392: a failed status query is printed, and the loop goes on.
AfterQuery(success) == IF success THEN "report" ELSE "select"

\* Lines 387-394: the monitoring status query.
GetOrder ==
    /\ pc = "get_order"
    /\ \E r \in get_order(order_id) :
         /\ order_response' = r
         /\ reported' = Observe(r)
         /\ pc' = AfterQuery(r.success)
         /\ IF r.success THEN UNCHANGED clock ELSE sleep(SleepError)
    /\ UNCHANGED <<others, order_id, otm, old_settings, term, new_price, result, exc,
                   broker, nextId, cmd, log, commanded>>
    /\ keyChecked' = order_response'.success    \* continue: the iteration ends

\* Mutant of Outcome: an expired order is polled on.
Outcome_expired_polled(status) ==
    IF status = "filled" THEN "FILLED"
    ELSE IF status \in {"canceled", "rejected"} THEN upper(status)
    ELSE None

\* Mutant of Outcome: a partial fill counts as the fill.
Outcome_partial(status) ==
    IF status \in {"filled", "partially_filled"} THEN "FILLED"
    ELSE IF status \in {"canceled", "expired", "rejected"} THEN upper(status)
    ELSE None

\* Lines 435-440: the value the loop returns for a status, None to go on.
Outcome(status) ==
    IF status = "filled" THEN "FILLED"
    ELSE IF status \in {"canceled", "expired", "rejected"} THEN upper(status)
    ELSE None

\* Lines 394-442: the status line, then the return or the sleep. The status
\* line (lines 396-433) only prints: a failed chain request shows 0.00 quotes,
\* a symbol that does not parse shows the bare status.
Report ==
    /\ pc = "report"
    /\ LET status == order_response.status IN
       IF Outcome(status) # None
       THEN /\ result' = Outcome(status)
            /\ pc' = "finally"
            /\ UNCHANGED clock
       ELSE /\ sleep(SleepStatus)
            /\ pc' = "select"
            /\ UNCHANGED result
    /\ order_response' = NoResponse       \* not read again before line 388 sets it
    /\ UNCHANGED <<others, order_id, otm, old_settings, term, new_price,
                   exc, broker, nextId, cmd, log, reported, commanded>>
    /\ keyChecked' = (pc' # "select")          \* the iteration ends

\* Ctrl-C: KeyboardInterrupt is raised at any point of the try block.
Interrupt ==
    /\ pc \in TryPcs
    /\ exc' = "KeyboardInterrupt"
    /\ pc' = "finally"
    /\ UNCHANGED <<others, order_id, otm, old_settings, term, new_price, order_response,
                   result, broker, nextId, clock, cmd, log, reported, commanded,
                   keyChecked>>

\* Mutant of Restored: no finally clause, the mode is left as it is.
Restored_missing == term

\* Line 445: the settings the finally clause puts back.
Restored == old_settings

\* Lines 444-445: the finally clause; the function then returns or raises.
Finally ==
    /\ pc = "finally"
    /\ term' = Restored
    /\ pc' = "done"
    /\ UNCHANGED <<others, order_id, otm, old_settings, new_price, order_response, result,
                   exc, broker, nextId, clock, cmd, log, reported, commanded,
                   keyChecked>>

\* The broker moves an order on.
BrokerStep ==
    /\ \E id \in OrderIds : \E s \in BrokerNext(broker[id]) :
         broker' = [broker EXCEPT ![id] = s]
    /\ UNCHANGED <<others, pc, order_id, otm, old_settings, term, new_price, order_response,
                   result, exc, nextId, clock, cmd, log, reported, commanded,
                   keyChecked>>

Next ==
    \/ SaveSettings
    \/ SetCbreak
    \/ Select
    \/ QConfirm
    \/ QCancel
    \/ QResume
    \/ AClassify
    \/ CarPrompt
    \/ CarCancel
    \/ CarWait
    \/ CarPlace
    \/ StdPrompt
    \/ StdReplace
    \/ AResume
    \/ GetOrder
    \/ Report
    \/ Interrupt
    \/ Finally
    \/ BrokerStep

Spec == Init /\ [][Next]_vars

\* The steps poll_order_status takes by itself: everything but the prompts,
\* which wait for the user, the interrupt and the broker.
Loop ==
    \/ SaveSettings
    \/ SetCbreak
    \/ Select
    \/ QCancel
    \/ QResume
    \/ AClassify
    \/ CarCancel
    \/ CarWait
    \/ CarPlace
    \/ StdReplace
    \/ AResume
    \/ GetOrder
    \/ Report
    \/ Finally

\* The interpreter keeps running the function: a step of the loop that can be
\* taken is taken (select() and the gateway calls return, the sleeps end).
SpecLive == Spec /\ WF_vars(Loop)

-----------------------------------------------------------------------------
(* The functions of atrade1.py, applied to arguments drawn from bounded sets *)

\* No monitoring session is running.
NoSession ==
    /\ pc = "none"
    /\ otm = <<>>
    /\ order_id = 0
    /\ old_settings = "unset"
    /\ new_price = NoPrice
    /\ order_response = NoResponse
    /\ result = None
    /\ exc = None
    /\ cmd = NoCommand(<<>>)
    /\ log = <<>>
    /\ reported = {}
    /\ commanded = FALSE
    /\ keyChecked = FALSE

\* The broker holds no order.
NoOrders ==
    /\ broker = [i \in OrderIds |-> "absent"]
    /\ nextId = 1

\* Arguments of create_occ_symbol: the underlyings, dates, types and strikes of
\* test_atrade1.py, and others of the same kinds.
Underlyings == {<<"S", "P", "Y">>, <<"t", "s", "l", "a">>}

ExpiryDates ==
    {<<"2", "0", "2", "5", "-", "0", "3", "-", "2", "1">>,
     <<"2", "0", "2", "4", "-", "0", "2", "-", "2", "9">>,
     <<"2", "0", "2", "4", "-", "1", "-", "5">>,
     <<"2", "0", "2", "4", "/", "0", "1", "/", "2", "0">>,
     <<"2", "0", "2", "4", "-", "0", "2", "-", "3", "0">>}

OptionTypes == {<<"C">>, <<"P">>, <<"c">>, <<"p">>, <<"X">>}

StrikeTexts ==
    {<<"0">>, <<"1", "9", "0">>, <<"4", "5", "5", ".", "5">>, <<"1", ".", "0", "0", "1">>,
     <<"-", "1">>, <<"n", "a", "n">>, <<"i", "n", "f">>,
     <<"f", "o", "u", "r", "-", "h", "u", "n", "d", "r", "e", "d">>}

\* Arguments of parse_occ_symbol: a symbol of each shape.
Symbols ==
    {OptionSymbol,
     <<"S", "P", "Y", "2", "5", "0", "3", "2", "1", "C", "0", "0", "0", "0", "1", "0", "0", "1">>,
     <<"S", "P", "Y">>,
     <<"2", "5", "0", "3", "2", "1", "P", "0", "0", "4", "5", "5", "5", "0", "0">>,
     <<"S", "P", "Y", "2", "5", "0", "3", "2">>,
     <<"S", "P", "Y", "2", "5", "0", "3", "2", "1", "P">>,
     <<"S", "P", "Y", "2", "5", "0", "3", "2", "1", "X", "0", "0", "4", "5", "5", "5", "0", "0">>,
     <<"S", "P", "Y", "2", "5", "0", "3", "2", "1", "P", "0", "0", "4", "5", "A", "5", "0", "0">>,
     <<"S", "P", "Y", "2", "5", "0", "3", "2", "1", "P", "n", "a", "n">>,
     <<"S", "P", "Y", "2", "5", "0", "3", "2", "1", "P", "-", "0", "0", "0", "1", "0", "0", "0">>,
     <<"S", "P", "Y", "2", "5", "1", "3", "2", "1", "P", "0", "0", "4", "5", "5", "5", "0", "0">>,
     <<"S", "P", "Y", "2", "5", "0", "3", " ", "1", "P", "0", "0", "4", "5", "5", "5", "0", "0">>}

\* One function is applied in a run, to any of its arguments.
InitApply ==
    /\ NoSession /\ NoOrders
    /\ term = "cooked" /\ clock = 0
    /\ trip = "none" /\ frame = <<>> /\ hist = <<>>
    /\ fn = "none" /\ arg = <<>> /\ out = <<>>

\* create_occ_symbol on a text strike, as atrade1_main's caller would give it.
ApplyCreate ==
    /\ fn = "none"
    /\ \E underlying \in Underlyings, expiry_date \in ExpiryDates,
          option_type \in OptionTypes, strike \in StrikeTexts :
         /\ arg' = [underlying |-> underlying, expiry_date |-> expiry_date,
                    option_type |-> option_type, strike |-> strike]
         /\ out' = create_occ_symbol(underlying, expiry_date, option_type,
                                     [text |-> strike])
    /\ fn' = "create_occ_symbol"
    /\ UNCHANGED <<session, trip, frame, hist>>

ApplyParse ==
    /\ fn = "none"
    /\ \E symbol \in Symbols :
         /\ arg' = [symbol |-> symbol]
         /\ out' = parse_occ_symbol(symbol)
    /\ fn' = "parse_occ_symbol"
    /\ UNCHANGED <<session, trip, frame, hist>>

\* Lines 397-406: the symbol is parsed, and the call and the put of its strike
\* are encoded again from the parsed fields.
SymbolsToFind(symbol) ==
    LET parsed_symbol == parse_occ_symbol(symbol) IN
    IF ~parsed_symbol.ok THEN [parsed |-> FALSE]
    ELSE [parsed |-> TRUE,
          type   |-> parsed_symbol.type,
          call_symbol_to_find |->
              create_occ_symbol(parsed_symbol.underlying, parsed_symbol.expiration_date,
                                <<"C">>, [float |-> parsed_symbol.strike_price]),
          put_symbol_to_find |->
              create_occ_symbol(parsed_symbol.underlying, parsed_symbol.expiration_date,
                                <<"P">>, [float |-> parsed_symbol.strike_price])]

ApplySymbolsToFind ==
    /\ fn = "none"
    /\ \E symbol \in Symbols :
         /\ arg' = [symbol |-> symbol]
         /\ out' = SymbolsToFind(symbol)
    /\ fn' = "symbols_to_find"
    /\ UNCHANGED <<session, trip, frame, hist>>

\* Strikes a chain may list per type, and the prices the underlying may have.
MaxStrikes == 4
StrikeGrid == {5 * i : i \in 1..MaxStrikes}
LastPrices == 0..(5 * MaxStrikes + 5)

RECURSIVE sorted(_)
\* sorted() of a set of numbers: the ascending list.
sorted(S) ==
    IF S = {} THEN <<>>
    ELSE LET m == CHOOSE x \in S : \A y \in S : x <= y
         IN <<m>> \o sorted(S \ {m})

RECURSIVE min_from(_, _, _, _)
\* min(range(len(strikes)), key = ...) from index i on, best being the index
\* kept so far: min() replaces it only by an index with a smaller key.
min_from(strikes, last_price, i, best) ==
    IF i > Len(strikes) THEN best
    ELSE min_from(strikes, last_price, i + 1,
                  IF Abs(strikes[i] - last_price) < Abs(strikes[best] - last_price)
                  THEN i ELSE best)

\* Mutant of suggested_strike_index: of the nearest strikes, the last one.
suggested_strike_index_last(sorted_strikes, last_price) ==
    CHOOSE i \in 1..Len(sorted_strikes) :
        /\ \A j \in 1..Len(sorted_strikes) :
              Abs(sorted_strikes[i] - last_price) <= Abs(sorted_strikes[j] - last_price)
        /\ \A j \in (i + 1)..Len(sorted_strikes) :
              Abs(sorted_strikes[i] - last_price) < Abs(sorted_strikes[j] - last_price)

\* Lines 659: the index (from 1) of the suggested strike of a non-empty list.
suggested_strike_index(sorted_strikes, last_price) ==
    min_from(sorted_strikes, last_price, 2, 1)

\* Lines 653-660: calls and puts are the strikes listed per type for the
\* selected expiry, which has at least one contract (line 641).
ApplySuggest ==
    /\ fn = "none"
    /\ \E calls \in SUBSET StrikeGrid, puts \in SUBSET StrikeGrid, last_price \in LastPrices :
         /\ calls \cup puts # {}
         /\ LET sorted_strikes == sorted(calls \cup puts) IN
            /\ arg' = [calls |-> calls, puts |-> puts, last_price |-> last_price]
            /\ out' = [sorted_strikes   |-> sorted_strikes,
                       suggested_strike |->
                           sorted_strikes[suggested_strike_index(sorted_strikes, last_price)]]
    /\ fn' = "suggested_strike"
    /\ UNCHANGED <<session, trip, frame, hist>>

\* The action letters the user may give (upper-cased at line 700), and a call
\* of the same underlying as another symbol a position may be in.
ActionInputs == {"B", "S", "X"}
OtherSymbol == <<"S", "P", "Y", "2", "5", "0", "3", "2", "1", "C", "0", "0", "4", "5", "5", "5", "0", "0">>

\* The "qty" texts of a position.
QtyTexts == {<<"-", "2">>, <<"0">>, <<"3">>, <<"n", "a", "n">>}

\* A position of the get_positions response; "qty" may be missing.
PositionEntries ==
    {[symbol |-> s, qty |-> q] : s \in {OptionSymbol, OtherSymbol}, q \in QtyTexts}
    \cup {[symbol |-> s] : s \in {OptionSymbol, OtherSymbol}}

MaxPositions == 2

RECURSIVE Lists(_, _)
\* The lists of at most n elements of S.
Lists(S, n) ==
    IF n = 0 THEN {<<>>}
    ELSE Lists(S, n - 1) \cup {Append(l, x) : l \in Lists(S, n - 1), x \in S}

\* The get_positions responses.
PositionResponses ==
    {[success |-> TRUE, data |-> l] : l \in Lists(PositionEntries, MaxPositions)}
    \cup {[success |-> FALSE]}

\* Lines 748-750: the quantity of the first position in the target symbol,
\* float(pos.get("qty", 0)); ok = FALSE when float() raises ValueError.
current_position_qty(all_positions, target_symbol) ==
    IF ~all_positions.success THEN [ok |-> TRUE, v |-> Thousandths(0)]
    ELSE LET data == all_positions.data
             hits == {i \in 1..Len(data) : data[i].symbol = target_symbol}
         IN IF hits = {} THEN [ok |-> TRUE, v |-> Thousandths(0)]
            ELSE LET pos == data[CHOOSE i \in hits : \A j \in hits : i <= j]
                 IN IF "qty" \in DOMAIN pos THEN float_text(pos.qty)
                    ELSE [ok |-> TRUE, v |-> Thousandths(0)]

\* float comparisons with 0: every comparison with nan is False.
Negative(v) == ~v.nan /\ ~v.inf /\ v.th < 0
Positive(v) == ~v.nan /\ (v.inf \/ v.th > 0)

\* Mutant of position_intent: the sign of the position is not looked at.
position_intent_any(action, qty) ==
    IF action \in {"B", "S"} /\ (Negative(qty) \/ Positive(qty)) THEN "close" ELSE "open"

\* Lines 753-757.
position_intent(action, qty) ==
    IF action = "B" /\ Negative(qty) THEN "close"
    ELSE IF action = "S" /\ Positive(qty) THEN "close"
    ELSE "open"

\* Lines 744-757: step 7 of atrade1_main. ValueError from float() leaves the
\* step with no intent (it is caught at line 766).
DetermineIntent(action, all_positions, target_symbol) ==
    LET qty == current_position_qty(all_positions, target_symbol) IN
    IF ~qty.ok THEN Raised("ValueError")
    ELSE [ok |-> TRUE, exc |-> None, qty |-> qty.v,
          position_intent |-> position_intent(action, qty.v)]

ApplyIntent ==
    /\ fn = "none"
    /\ \E action \in ActionInputs, all_positions \in PositionResponses :
         /\ arg' = [action |-> action, all_positions |-> all_positions,
                    target_symbol |-> OptionSymbol]
         /\ out' = DetermineIntent(action, all_positions, OptionSymbol)
    /\ fn' = "position_intent"
    /\ UNCHANGED <<session, trip, frame, hist>>

NextApply ==
    \/ ApplyCreate
    \/ ApplyParse
    \/ ApplySymbolsToFind
    \/ ApplySuggest
    \/ ApplyIntent

SpecApply == InitApply /\ [][NextApply]_vars

-----------------------------------------------------------------------------
(* An order from atrade1_main's step 7, or an adopted one, to the end of its *)
(* round trip: place_and_monitor_order and find_and_adopt_orphaned_order     *)
(* around the sessions of poll_order_status.                                 *)

\* The open order an adoption may find (get_open_orders), with the status the
\* broker has it in. "position_intent" may be missing.
OrphanedOrders ==
    {[id |-> 1, symbol |-> OptionSymbol, qty |-> 5, side |-> "sell",
      limit_price |-> Num(1), position_intent |-> "sell_to_open"],
     [id |-> 1, symbol |-> OptionSymbol, qty |-> 5, side |-> "sell",
      limit_price |-> Num(1), position_intent |-> "sell_to_close"],
     [id |-> 1, symbol |-> PlainSymbol, qty |-> 1, side |-> "buy",
      limit_price |-> Num(1)]}

OpenStatuses == {"new", "accepted"}

\* Answers to "Do you want to adopt and monitor this order? (y/n)".
AdoptInputs == {"y", "Y", "n"}

\* Answers to "Enter limit price for closing order (or 's' to skip)".
ClosingInputs == {"s", "S", "abc", "nan", "2"}

\* "close" in s, on the position intents of an order.
contains_close(s) == s \in {"buy_to_close", "sell_to_close"}

\* Line 236.
adopted_intent(orphaned_order) ==
    IF "position_intent" \in DOMAIN orphaned_order
          /\ contains_close(orphaned_order.position_intent)
    THEN "close" ELSE "open"

\* Lines 450, 521 and 242: the side of an action letter, and back.
side_of(action) == IF action = "B" THEN "buy" ELSE "sell"
action_of(side) == IF side = "buy" THEN "B" ELSE "S"

\* Mutant of inverted: the closing order repeats the action.
inverted_same(action) == action

\* Lines 251 and 520: the action that closes.
inverted(action) == IF action = "B" THEN "S" ELSE "B"

\* The arguments of place_and_monitor_order and what it has found out so far;
\* by = where it was called from.
Frame(occ_symbol, quantity, action, price, intent, by) ==
    [occ_symbol |-> occ_symbol, quantity |-> quantity, action |-> action,
     price |-> price, position_intent |-> intent, by |-> by,
     status |-> None, raised |-> None, answer |-> None, closing_price |-> NoPrice,
     chain_response |-> [success |-> FALSE]]

InitTrip ==
    /\ NoSession
    /\ term = "cooked" /\ clock = 0
    /\ hist = <<>>
    /\ fn = "none" /\ arg = <<>> /\ out = <<>>
    /\ \/ /\ trip = "intent"
          /\ NoOrders
          /\ frame \in {Frame(OptionSymbol, 1, action, Num(1), None, "atrade1_main") :
                           action \in {"B", "S"}}
       \/ /\ trip = "adopt"
          /\ \E orphaned_order \in OrphanedOrders, s \in OpenStatuses :
               /\ broker = [i \in OrderIds |-> IF i = 1 THEN s ELSE "absent"]
               /\ frame = Frame(orphaned_order.symbol, orphaned_order.qty,
                                action_of(orphaned_order.side), orphaned_order.limit_price,
                                adopted_intent(orphaned_order), "adoption")
          /\ nextId = 2

\* poll_order_status is called with the dict o.
SessionStarts(o) ==
    /\ pc' = "entry"
    /\ otm' = o
    /\ order_id' = 0
    /\ old_settings' = "unset"
    /\ new_price' = NoPrice
    /\ order_response' = NoResponse
    /\ result' = None
    /\ exc' = None
    /\ clock' = 0                 \* the clock counts from the start of the session
    /\ cmd' = NoCommand(o)
    /\ log' = <<>>
    /\ reported' = {}
    /\ commanded' = FALSE
    /\ keyChecked' = FALSE

\* poll_order_status has returned or raised: its locals are gone, and the dict
\* is not read again.
SessionEnds ==
    /\ pc' = "none"
    /\ otm' = <<>>
    /\ order_id' = 0
    /\ old_settings' = "unset"
    /\ new_price' = NoPrice
    /\ order_response' = NoResponse
    /\ result' = None
    /\ exc' = None
    /\ cmd' = NoCommand(<<>>)
    /\ log' = <<>>
    /\ reported' = {}
    /\ commanded' = FALSE
    /\ keyChecked' = FALSE

\* The variables of a session that the steps between sessions leave alone.
locals == <<pc, order_id, otm, old_settings, new_price, order_response, result,
            exc, cmd, log, reported, commanded, keyChecked>>

\* Lines 744-760: step 7 of atrade1_main, then the call at line 760.
MainIntent ==
    /\ trip = "intent"
    /\ \E all_positions \in PositionResponses :
         LET r == DetermineIntent(frame.action, all_positions, frame.occ_symbol) IN
         IF r.ok
         THEN /\ frame' = [frame EXCEPT !.position_intent = r.position_intent]
              /\ trip' = "place"
         ELSE /\ frame' = [frame EXCEPT !.raised = r.exc]
              /\ trip' = "end"
    /\ UNCHANGED <<locals, term, broker, nextId, clock, hist, applied>>

\* Lines 217-247: the user adopts the one working order found, or not; the
\* dict of lines 238-245 goes to poll_order_status.
Adopt ==
    /\ trip = "adopt"
    /\ \E adopt_choice \in AdoptInputs :
         IF lower(adopt_choice) = "y"
         THEN /\ SessionStarts([id |-> 1, symbol |-> frame.occ_symbol,
                                quantity |-> frame.quantity,
                                side |-> side_of(frame.action), action |-> frame.action,
                                price |-> frame.price])
              /\ trip' = "adopted_session"
         ELSE /\ trip' = "end"
              /\ UNCHANGED <<locals, clock>>
    /\ UNCHANGED <<term, broker, nextId, frame, hist, applied>>

\* A place call made outside the monitor, as hist records it. closing: the
\* call is made to close an order that has filled.
PlaceCall(symbol, qty, side, price, r, closing) ==
    [op |-> "place", symbol |-> symbol, qty |-> qty, side |-> side,
     order_type |-> "limit", time_in_force |-> "day", price |-> price,
     ok |-> r.success, id |-> r.id, closing |-> closing]

\* Lines 448-482: the order is placed; a failed request ends the function,
\* otherwise the dict of lines 471-480 goes to poll_order_status.
PlaceOrder ==
    /\ trip = "place"
    /\ LET side == side_of(frame.action) IN
       \E r \in place_order(frame.occ_symbol, frame.quantity, side, "limit", "day",
                            frame.price) :
         /\ broker' = r.broker
         /\ hist' = Append(hist, PlaceCall(frame.occ_symbol, frame.quantity, side,
                                           frame.price, r, frame.by = "adoption"))
         /\ IF r.success
            THEN /\ nextId' = nextId + 1
                 /\ SessionStarts([id |-> r.id, symbol |-> frame.occ_symbol,
                                   quantity |-> frame.quantity, side |-> side,
                                   action |-> frame.action, price |-> frame.price,
                                   original_start_time |-> 0,
                                   last_interaction_time |-> 0])
                 /\ trip' = "session"
            ELSE /\ trip' = "end"
                 /\ UNCHANGED <<locals, nextId, clock>>
    /\ UNCHANGED <<term, frame, applied>>

\* A return of poll_order_status, as hist records it: the status returned
\* (None when it raised), the intent of the order the session was for, and
\* whether that order was placed to close a filled one.
SessionReturn(intent, closing) ==
    [op |-> "returned", status |-> IF exc # None THEN None ELSE result,
     raised |-> exc, intent |-> intent, closing |-> closing]

\* Mutant of RoundTrip: every fill is followed by the closing workflow.
RoundTrip_any_intent(status, intent) == status = "FILLED"

\* Lines 249 and 485: what starts the closing of a position.
RoundTrip(status, intent) == status = "FILLED" /\ intent = "open"

\* Lines 482-486: poll_order_status returns the status, or raises (the
\* exception leaves place_and_monitor_order too).
AfterSession ==
    /\ trip = "session" /\ pc = "done"
    /\ SessionEnds
    /\ IF exc # None
       THEN /\ frame' = [frame EXCEPT !.raised = exc]
            /\ trip' = "end"
       ELSE /\ frame' = [frame EXCEPT !.status = result]
            /\ trip' = IF RoundTrip(result, frame.position_intent) THEN "chain" ELSE "end"
    /\ hist' = Append(hist, SessionReturn(frame.position_intent, frame.by = "adoption"))
    /\ UNCHANGED <<term, broker, nextId, clock, applied>>

\* Lines 247-253: the adopted order's session returns or raises; after a fill
\* of an opening order place_and_monitor_order is called for the other side, at
\* price 0 and with intent "close".
AfterAdoptedSession ==
    /\ trip = "adopted_session" /\ pc = "done"
    /\ SessionEnds
    /\ IF exc # None
       THEN /\ frame' = [frame EXCEPT !.raised = exc]
            /\ trip' = "end"
       ELSE IF RoundTrip(result, frame.position_intent)
       THEN /\ frame' = Frame(frame.occ_symbol, frame.quantity, inverted(frame.action),
                              Num(0), "close", "adoption")
            /\ trip' = "place"
       ELSE /\ frame' = [frame EXCEPT !.status = result]
            /\ trip' = "end"
    /\ hist' = Append(hist, SessionReturn(frame.position_intent, FALSE))
    /\ UNCHANGED <<term, broker, nextId, clock, applied>>

\* A bid and an ask.
Quote == [bp |-> Num(1), ap |-> Num(2)]

\* The "data" of a get_option_chain response, for a symbol. The service's
\* document has the snapshots under "snapshots", each with its "latestQuote"
\* (as lines 305, 360, 403 and 616 read it); entry stands for a key that is the
\* symbol itself, at the top of the document.
ChainData(symbol) ==
    {[snapshots |-> [symbol |-> symbol, latestQuote |-> Quote]],
     [entry |-> [symbol |-> symbol, latestQuote |-> Quote]],
     [entry |-> [symbol |-> symbol, quote |-> Quote]],
     [entry |-> [symbol |-> symbol, quote |-> [ap |-> Num(2)]]]}

ChainResponses(symbol) ==
    {[success |-> FALSE]} \cup {[success |-> TRUE, data |-> d] : d \in ChainData(symbol)}

\* Lines 501-508: where the closing workflow goes on a chain response.
\* snapshots.get(occ_symbol) looks the symbol up at the top of "data", and the
\* quote is read from its "quote"; closing_quote['bp'] raises KeyError.
AfterChain(chain_response, occ_symbol) ==
    IF ~chain_response.success THEN [next |-> "end", raised |-> None]
    ELSE LET snapshots == chain_response.data IN
         IF "entry" \notin DOMAIN snapshots \/ snapshots.entry.symbol # occ_symbol
         THEN [next |-> "end", raised |-> None]
         ELSE IF "quote" \notin DOMAIN snapshots.entry
         THEN [next |-> "end", raised |-> None]
         ELSE IF "bp" \notin DOMAIN snapshots.entry.quote
         THEN [next |-> "end", raised |-> "KeyError"]
         ELSE [next |-> "prompt", raised |-> None]

\* Lines 486-508: the closing workflow fetches the chain for the quote.
Chain ==
    /\ trip = "chain"
    /\ \E chain_response \in ChainResponses(frame.occ_symbol) :
         LET a == AfterChain(chain_response, frame.occ_symbol) IN
         /\ trip' = a.next
         /\ frame' = [frame EXCEPT !.raised = a.raised,
                                   !.chain_response = chain_response]
    /\ UNCHANGED <<locals, term, broker, nextId, clock, hist, applied>>

\* Lines 510-518: the prompt for the closing price. go = FALSE: 's', or
\* float() raised ValueError.
ReadClosingPrice(closing_price_str) ==
    IF lower(closing_price_str) = "s" THEN [go |-> FALSE, price |-> NoPrice]
    ELSE IF ~float(closing_price_str).ok THEN [go |-> FALSE, price |-> NoPrice]
    ELSE [go |-> TRUE, price |-> float(closing_price_str).v]

ClosingPrompt ==
    /\ trip = "prompt"
    /\ \E closing_price_str \in ClosingInputs :
         LET a == ReadClosingPrice(closing_price_str) IN
         /\ frame' = [frame EXCEPT !.answer = closing_price_str,
                                   !.closing_price = a.price]
         /\ trip' = IF a.go THEN "place_closing" ELSE "end"
    /\ UNCHANGED <<locals, term, broker, nextId, clock, hist, applied>>

\* Lines 520-549: the closing order is placed; a failed request ends the
\* function, otherwise the dict of lines 541-548 goes to poll_order_status.
\* closing_action is 'S' or 'B', so closing_side is its side.
PlaceClosing ==
    /\ trip = "place_closing"
    /\ LET closing_action == inverted(frame.action)
           closing_side   == side_of(closing_action)
       IN \E r \in place_order(frame.occ_symbol, frame.quantity, closing_side,
                               "limit", "day", frame.closing_price) :
            /\ broker' = r.broker
            /\ hist' = Append(hist, PlaceCall(frame.occ_symbol, frame.quantity,
                                              closing_side, frame.closing_price, r, TRUE))
            /\ IF r.success
               THEN /\ nextId' = nextId + 1
                    /\ SessionStarts([id |-> r.id, symbol |-> frame.occ_symbol,
                                      quantity |-> frame.quantity, side |-> closing_side,
                                      action |-> closing_action,
                                      price |-> frame.closing_price])
                    /\ trip' = "closing_session"
               ELSE /\ trip' = "end"
                    /\ UNCHANGED <<locals, nextId, clock>>
    /\ UNCHANGED <<term, frame, applied>>

\* Line 549: the closing order's session returns or raises, and
\* place_and_monitor_order ends.
AfterClosingSession ==
    /\ trip = "closing_session" /\ pc = "done"
    /\ SessionEnds
    /\ frame' = [frame EXCEPT !.raised = exc]
    /\ trip' = "end"
    /\ hist' = Append(hist, SessionReturn("close", TRUE))
    /\ UNCHANGED <<term, broker, nextId, clock, applied>>

NextTrip ==
    \/ MainIntent
    \/ Adopt
    \/ PlaceOrder
    \/ AfterSession
    \/ AfterAdoptedSession
    \/ Chain
    \/ ClosingPrompt
    \/ PlaceClosing
    \/ AfterClosingSession
    \/ Next

SpecTrip == InitTrip /\ [][NextTrip]_vars

-----------------------------------------------------------------------------
(* The claims *)

\* The four outcomes, as poll_order_status returns them.
Outcomes == {"FILLED", "CANCELED", "EXPIRED", "REJECTED"}

\* The broker status an outcome stands for.
StatusOf(outcome) ==
    CASE outcome = "FILLED"   -> "filled"
      [] outcome = "CANCELED" -> "canceled"
      [] outcome = "EXPIRED"  -> "expired"
      [] outcome = "REJECTED" -> "rejected"
      [] OTHER                -> "no status"

\* The price answers that are numbers, and the price each one states.
NumericAnswers == {"2", "3"}
PriceStated(answer) == IF answer = "2" THEN Num(2) ELSE Num(3)

Monitoring == {"select", "get_order", "report"}
Left == {"finally", "done"}

\* C1: in a session in which no A or Q key was read, no cancel, replace or place
\* call is issued and the tracked order is never changed; once a status query
\* has reported a terminal status no further step of the loop is taken (the
\* monitor is at the report that returns, or has left), and a returned value is
\* the outcome of that one reported status.
C1_NoInputReturnsFirstTerminal ==
    ~commanded =>
        /\ log = <<>> /\ nextId = 2 /\ otm.id = 1
        /\ reported # {} => pc \in {"report"} \cup Left
        /\ result # None => reported = {StatusOf(result)}
        /\ (pc \in Left /\ exc = None) => result \in Outcomes

\* Statuses new, partially_filled, filled in turn, with no key: Filled.
C1_Witness ==
    /\ ~commanded /\ pc = "done" /\ result = "FILLED"
    /\ clock >= SleepStatus

\* C2: a value poll_order_status returns is FILLED, CANCELED, EXPIRED or
\* REJECTED, whatever polls and commands came before; it leaves without one of
\* them only by raising.
C2_ReturnsOnlyOutcomes ==
    /\ result \in Outcomes \cup {None}
    /\ (pc = "done" /\ exc = None) => result \in Outcomes

C2_Witness ==
    /\ pc = "done" /\ commanded /\ result = "EXPIRED" /\ exc = None /\ otm.id # 1

\* The adjustment in progress (or just completed) is a cancel-and-replace with
\* a numeric price.
InCancelAndReplace ==
    /\ cmd.key = "A"
    /\ cmd.current_status \in non_replaceable_statuses
    /\ cmd.answer \in NumericAnswers

\* C3: in an adjustment whose status re-fetch reported a non-replaceable status
\* and whose price answer is a number, the first call is a cancel of the
\* tracked order; a place call comes only after that cancel succeeded and a
\* re-poll of the same order reported canceled; no replace call is issued; and
\* the monitor does not go on to place before both have happened.
C3_CancelThenConfirmThenPlace ==
    InCancelAndReplace =>
        /\ \A i \in 1..Len(log) : log[i].op # "replace"
        /\ Len(log) >= 1 =>
              /\ log[1].op = "cancel"
              /\ log[1].id = cmd.before.id
        /\ Len(log) >= 2 =>
              /\ log[1].ok
              /\ log[2] = [op |-> "saw", id |-> cmd.before.id, status |-> "canceled"]
        /\ \A i \in 1..Len(log) : log[i].op = "place" => i = 3
        /\ Len(log) <= 3
        /\ pc = "car_cancel" => log = <<>>
        /\ pc = "car_wait" => Len(log) = 1 /\ log[1].ok
        /\ pc = "car_place" => Len(log) = 2
        /\ pc \in {"std_prompt", "std_replace"} => FALSE

C3_Witness ==
    /\ InCancelAndReplace
    /\ cmd.current_status = "accepted"
    /\ Len(log) = 3
    /\ log[3].op = "place" /\ log[3].ok
    /\ cmd.done

\* The adjustment in progress (or just completed) is a standard replace with a
\* numeric price.
InStandardReplace ==
    /\ cmd.key = "A"
    /\ cmd.current_status \in Statuses \ non_replaceable_statuses
    /\ cmd.answer \in NumericAnswers

\* C4: in an adjustment whose status re-fetch reported a status outside the
\* non-replaceable set and whose price answer is a number, the only call is one
\* replace call, for the tracked order id and with the price entered; no cancel
\* and no place call is issued.
C4_StandardReplaceOnly ==
    InStandardReplace =>
        /\ Len(log) <= 1
        /\ Len(log) = 1 =>
              /\ log[1].op = "replace"
              /\ log[1].id = cmd.before.id
              /\ log[1].price = PriceStated(cmd.answer)
        /\ pc = "std_replace" => log = <<>> /\ new_price = PriceStated(cmd.answer)
        /\ (pc \in {"a_resume"} \/ cmd.done) => Len(log) = 1
        /\ pc \notin {"car_prompt", "car_cancel", "car_wait", "car_place"}

C4_Witness ==
    /\ InStandardReplace
    /\ cmd.current_status = "new"
    /\ cmd.done
    /\ log[1].ok
    /\ otm.price = PriceStated(cmd.answer)

\* The user confirmed the Q command.
QConfirmed == cmd.answer \in {"y", "Y"}

\* C5: in a Q command a cancel call (one, for the tracked order) is issued only
\* if the user confirmed; if it succeeded the session returns CANCELED; if the
\* user declined or the call failed, the tracked order is as it was, and the
\* monitor is back in the loop with the same order id: it leaves only by an
\* interrupt or with an outcome that a status query reported.
C5_QuitCommand ==
    cmd.key = "Q" =>
        /\ otm = cmd.before /\ order_id = cmd.before.id
        /\ log # <<>> =>
              /\ QConfirmed
              /\ log = <<[op |-> "cancel", id |-> order_id, ok |-> log[1].ok]>>
        /\ (log # <<>> /\ log[1].ok) =>
              /\ pc \in Left
              /\ result = "CANCELED" /\ exc = None
        /\ (cmd.done /\ (log = <<>> \/ ~log[1].ok)) =>
              /\ pc \in Monitoring \cup Left
              /\ pc \in Left =>
                    \/ exc = "KeyboardInterrupt"
                    \/ result \in Outcomes /\ StatusOf(result) \in reported
        /\ (cmd.answer # None /\ ~QConfirmed) => log = <<>>

\* A confirmed cancel failed, and the monitor has polled the same order again.
C5_Witness ==
    /\ cmd.key = "Q" /\ cmd.done
    /\ Len(log) = 1 /\ ~log[1].ok
    /\ pc = "report" /\ order_response.success
    /\ order_id = cmd.before.id

\* The step is the monitoring status query (lines 387-394).
QueryStep == pc = "get_order" /\ pc' # "get_order" /\ exc' = exc

\* C6: a failed monitoring status query leaves the tracked order and the order
\* id as they were, returns nothing and raises nothing, and takes the monitor
\* to the top of the loop; the query is always for the tracked order's id.
C6_FailedQueryContinues ==
    [][(QueryStep /\ ~order_response'.success) =>
          /\ pc' = "select"
          /\ otm' = otm /\ order_id' = order_id /\ order_id = otm.id
          /\ result' = None /\ exc' = None]_vars

\* One failed query, and the monitor is about to query again.
C6_Witness ==
    /\ ~commanded /\ clock = SleepError /\ pc = "get_order" /\ order_id = otm.id

\* C7 (as claimed): a returned outcome was reported by a get_order response
\* for the tracked order before the return, and CANCELED is not returned for
\* an order the broker reports as filled.
C7_OnlyConfirmedOutcomes ==
    (pc = "done" /\ result # None) =>
        /\ StatusOf(result) \in reported
        /\ result = "CANCELED" => broker[order_id] # "filled"

\* C8: when poll_order_status has left, by a return or by an exception, the
\* terminal is in the mode saved at entry, and that is the mode it was in
\* before the monitor set cbreak.
C8_TerminalRestored ==
    /\ pc = "done" => term = old_settings
    /\ pc # "entry" => old_settings \in {"cooked", "raw"}

\* An interrupt in the middle of a cancel-and-replace.
C8_Witness ==
    /\ pc = "done" /\ exc = "KeyboardInterrupt"
    /\ cmd.key = "A" /\ ~cmd.done /\ Len(log) = 1

\* C9: the monitoring status query is issued only in an iteration that has made
\* its keystroke check and with no command pending: a command that was read
\* has run to completion before the query.
C9_KeystrokeCheckFirst ==
    /\ pc = "get_order" => keyChecked /\ cmd.done
    /\ ~cmd.done => order_response = NoResponse /\ pc \notin {"get_order", "report"}

C9_Witness ==
    /\ pc = "get_order" /\ cmd.key = "A" /\ cmd.done /\ Len(log) = 3

\* C10 (as claimed): when the answer to the price prompt is the sentinel or is
\* no number, no cancel, replace or place call is issued and the tracked
\* order's id, price and last_interaction_time are unchanged.
C10_NonNumericAborts ==
    (cmd.key = "A" /\ cmd.answer # None /\ cmd.answer \notin NumericAnswers) =>
        /\ log = <<>>
        /\ otm = cmd.before

\* The step is the place call of a cancel-and-replace, and the call succeeded.
PlacedStep ==
    /\ pc = "car_place" /\ pc' = "a_resume"
    /\ log'[Len(log')].op = "place" /\ log'[Len(log')].ok

\* The status queries are for the tracked order's id.
QueriesTracked ==
    pc \in {"a_classify", "car_wait", "get_order"} => order_id = otm.id

\* C19: the place call of a successful cancel-and-replace carries the tracked
\* order's symbol, quantity and side with the price the user entered; after it
\* the tracked order has the id the call returned (an id no order had before),
\* the new price and the time of the call as its last adjustment, and nothing
\* else of it has changed; every status query is for the tracked order's id.
C19_CancelAndReplaceAdopts ==
    /\ [][PlacedStep =>
            LET p == log'[Len(log')] IN
            /\ p.symbol = cmd.before.symbol /\ p.symbol = otm.symbol
            /\ p.qty = otm.quantity /\ p.side = otm.side
            /\ p.price = PriceStated(cmd.answer)
            /\ p.id # otm.id /\ broker[p.id] = "absent"
            /\ otm' = [otm EXCEPT !.id = p.id, !.price = p.price,
                                  !.last_interaction_time = clock']
            /\ order_id' = p.id]_vars
    /\ []QueriesTracked

\* After a cancel-and-replace the status query has been made for the new id.
C19_Witness ==
    /\ InCancelAndReplace /\ Len(log) = 3 /\ log[3].ok
    /\ pc = "report" /\ order_response.success
    /\ order_id = log[3].id /\ otm.id = log[3].id /\ otm.id # cmd.before.id
    /\ otm.last_interaction_time > cmd.before.last_interaction_time

\* The step is the replace call of a standard replace.
ReplaceStep == pc = "std_replace" /\ pc' = "a_resume"

\* C20: after a successful replace call the tracked order has the id of the
\* response (its old id when the response carries none), the new price and the
\* time of the call as its last adjustment; after a failed one the tracked
\* order and the order id are as they were; either way nothing is returned or
\* raised, the next step of the session is the monitoring status query, and
\* that query is for the tracked order's id.
C20_StandardReplaceOutcome ==
    /\ [][ReplaceStep =>
            LET p == log'[Len(log')] IN
            /\ p.op = "replace" /\ p.id = otm.id
            /\ IF p.ok
               THEN /\ otm' = [otm EXCEPT !.id = IF p.new_id # 0 THEN p.new_id ELSE otm.id,
                                          !.price = PriceStated(cmd.answer),
                                          !.last_interaction_time = clock']
                    /\ order_id' = otm'.id
               ELSE otm' = otm /\ order_id' = order_id
            /\ result' = None /\ exc' = None]_vars
    /\ [][(pc = "a_resume" /\ pc' \notin {"a_resume", "finally"}) =>
            pc' = "get_order" /\ order_id' = otm'.id /\ otm' = otm]_vars

\* A failed replace: the tracked order is as before the command, and the
\* session has queried the status of the same id again.
C20_Witness ==
    /\ InStandardReplace /\ Len(log) = 1 /\ ~log[1].ok
    /\ pc = "report" /\ order_response.success
    /\ otm = cmd.before /\ order_id = cmd.before.id

\* C21 (as claimed): a replace call is issued only in an adjustment whose
\* status re-fetch succeeded and reported a status outside the non-replaceable
\* set, and only on an order that is not in a non-replaceable status when the
\* call is made.
C21_ReplaceOnlyReplaceable ==
    [][ReplaceStep =>
          /\ cmd.current_status \in Statuses \ non_replaceable_statuses
          /\ broker[order_id] \notin non_replaceable_statuses]_vars

\* The step issues the cancel, replace or place call of an adjustment, and the
\* call fails.
FailedAttempt ==
    /\ cmd.key = "A" /\ Len(log') = Len(log) + 1
    /\ log'[Len(log')].op \in {"cancel", "replace", "place"}
    /\ ~log'[Len(log')].ok

\* The last call of the adjustment failed.
AttemptFailed ==
    /\ cmd.key = "A" /\ log # <<>>
    /\ log[Len(log)].op \in {"cancel", "replace", "place"}
    /\ ~log[Len(log)].ok

\* C22: a cancel, replace or place call of an adjustment that fails returns
\* nothing and raises nothing and leaves the tracked order as it was; the
\* monitor goes on to the keystroke check or the status query, and when the
\* session leaves later it is by an interrupt or with an outcome that a status
\* query reported.
C22_FailedAttemptContinues ==
    /\ [][FailedAttempt =>
            /\ result' = None /\ exc' = None
            /\ otm' = otm /\ order_id' = order_id
            /\ pc' \in {"select", "a_resume"}]_vars
    /\ [](AttemptFailed =>
            /\ pc \in {"a_resume"} \cup Monitoring \cup Left
            /\ pc \in Left =>
                  \/ exc = "KeyboardInterrupt"
                  \/ result \in Outcomes /\ StatusOf(result) \in reported)

\* The place call failed after the cancellation was confirmed, and the monitor
\* has queried the status again.
C22_Witness ==
    /\ AttemptFailed /\ Len(log) = 3 /\ log[3].op = "place"
    /\ cmd.done /\ pc = "report" /\ order_response.success
    /\ result = None /\ exc = None

\* C23 (as claimed): poll_order_status raises nothing but the interrupt of the
\* user: a symbol that does not parse, or a failed quote fetch, at the adjust
\* prompt leaves the session in the loop.
C23_NoFailureEscapes == exc \in {None, "KeyboardInterrupt"}

\* The step is an adjustment call that succeeded: the place call of a
\* cancel-and-replace, or a replace call.
AdjustSucceeded ==
    \/ PlacedStep
    \/ ReplaceStep /\ log'[Len(log')].op = "replace" /\ log'[Len(log')].ok

\* The step leaves the field k of the tracked order as it is.
Kept(k) == k \in DOMAIN otm => (k \in DOMAIN otm' /\ otm'[k] = otm[k])

\* C26: no step of a session changes the tracked order's symbol, quantity,
\* side or original_start_time (set at entry when the dict comes without it);
\* a step that changes the record at all is the entry, which only adds the two
\* times, or an adjustment call that has just succeeded, which changes nothing
\* but the id, the price and last_interaction_time.
C26_TrackedOrderFrame ==
    [][/\ \A k \in {"symbol", "quantity", "side", "original_start_time"} : Kept(k)
       /\ otm' # otm =>
            \/ /\ pc = "entry"
               /\ DOMAIN otm' = DOMAIN otm \cup {"original_start_time", "last_interaction_time"}
               /\ \A k \in DOMAIN otm : Kept(k)
            \/ /\ AdjustSucceeded
               /\ DOMAIN otm' = DOMAIN otm
               /\ \A k \in DOMAIN otm \ {"id", "price", "last_interaction_time"} : Kept(k)]_vars

\* After an adjustment that changed the id, a declined Q command has left the
\* record as it was.
C26_Witness ==
    /\ otm.id # 1 /\ otm.price # Num(1)
    /\ cmd.key = "Q" /\ cmd.done /\ log = <<>> /\ otm = cmd.before
    /\ pc = "report"

\* C28 (as claimed): the keystroke check is made with the terminal in cbreak
\* mode.
C28_CbreakAtKeystrokeCheck == pc = "select" => term = "cbreak"

\* C29 (as claimed): once a status query has reported a terminal status of
\* the order whose cancellation the monitor waits for (terminal statuses are
\* final, so the broker reports it from then on), the wait is left.
C29_CancelWaitEnds ==
    [](((pc = "car_wait") /\ (reported # {})) => <>(pc # "car_wait"))

\* C30: with no A or Q key and no interrupt, if the broker reports a terminal
\* status of the tracked order from some point on and the status queries do
\* not fail forever (the loop comes to a report again and again), the session
\* returns, and what it returns is the outcome of that status.
C30_NoInputReturns ==
    (/\ [](~commanded /\ exc = None)
     /\ <>[](broker[1] \in TerminalStatuses)
     /\ []<>(pc \notin {"select", "get_order"}))
        => <>(pc = "done" /\ result \in Outcomes /\ StatusOf(result) = broker[1])

\* With no command, a status query failed, a later one reported expired, and
\* the session returned that.
C30_Witness ==
    /\ ~commanded /\ exc = None /\ pc = "done"
    /\ clock >= SleepError /\ broker[1] = "expired" /\ result = "EXPIRED"

-----------------------------------------------------------------------------
(* The claims on the functions (SpecApply) *)

\* A date written YYYY-MM-DD: four, two and two digits, a day of the calendar.
MatchesDate(d) == strptime_iso(d).ok /\ strftime_iso(strptime_iso(d)) = d

TypeLetters == {<<"C">>, <<"P">>}
TypeOf(letter) == IF letter = <<"C">> THEN "call" ELSE "put"

\* The text is a number (not nan, not an infinity).
Numeric(s) == float_text(s).ok /\ ~float_text(s).v.nan /\ ~float_text(s).v.inf

\* Fields that are valid for Encode: an upper-case underlying, a date written
\* YYYY-MM-DD, C or P, and a strike of a non-negative whole number of
\* thousandths.
ValidFields(a) ==
    /\ Len(a.underlying) > 0 /\ a.underlying = Upper(a.underlying)
    /\ MatchesDate(a.expiry_date)
    /\ a.option_type \in TypeLetters
    /\ Numeric(a.strike) /\ float_text(a.strike).v.th >= 0

\* A syntactically valid symbol: an upper-case underlying, six digits of a
\* date, C or P, eight digits.
WellFormed(symbol) ==
    LET i == FirstDigit(symbol) IN
    /\ i > 1
    /\ SubSeq(symbol, 1, i - 1) = Upper(SubSeq(symbol, 1, i - 1))
    /\ Len(symbol) = i + 14
    /\ AllDigits(SubSeq(symbol, i, i + 5))
    /\ strptime_yymmdd(SubSeq(symbol, i, i + 5)).ok
    /\ <<symbol[i + 6]>> \in TypeLetters
    /\ AllDigits(SubSeq(symbol, i + 7, i + 14))

\* C14 (as claimed): on valid fields Decode(Encode(u, d, t, s)) gives back u,
\* d, t and s; and for a syntactically valid symbol, Encode of the fields of
\* its Decode, with the letter of the decoded type, gives back the symbol.
C14_EncodeDecodeInverse ==
    /\ (fn = "create_occ_symbol" /\ ValidFields(arg)) =>
          /\ out.ok
          /\ LET d == parse_occ_symbol(out.symbol) IN
             /\ d.ok
             /\ d.underlying = arg.underlying
             /\ d.expiration_date = arg.expiry_date
             /\ d.type = TypeOf(arg.option_type)
             /\ d.strike_price = float_text(arg.strike).v
    /\ (fn = "symbols_to_find" /\ WellFormed(arg.symbol)) =>
          /\ out.parsed
          /\ LET e == IF out.type = "call" THEN out.call_symbol_to_find
                      ELSE out.put_symbol_to_find
             IN e.ok /\ e.symbol = arg.symbol

\* C15 (as claimed): create_occ_symbol returns None when the date is not
\* written YYYY-MM-DD, the type is none of C, P, c, p, or the strike is no
\* number; for the other inputs of a non-negative strike it returns the
\* upper-cased underlying, YYMMDD, the upper-case type letter and the strike in
\* thousandths zero-padded to 8 digits.
C15_CreateOccSymbol ==
    fn = "create_occ_symbol" =>
        IF \/ ~MatchesDate(arg.expiry_date)
           \/ Upper(arg.option_type) \notin TypeLetters
           \/ ~Numeric(arg.strike)
        THEN ~out.ok /\ out.exc = None
        ELSE float_text(arg.strike).v.th >= 0 =>
                /\ out.ok
                /\ out.symbol = Upper(arg.underlying)
                                   \o strftime_yymmdd(strptime_iso(arg.expiry_date))
                                   \o Upper(arg.option_type)
                                   \o ZeroPadded(float_text(arg.strike).v.th, 8)

\* C16 (as claimed): for a negative strike create_occ_symbol returns no symbol.
C16_NegativeStrikeRejected ==
    (fn = "create_occ_symbol" /\ Numeric(arg.strike)
        /\ float_text(arg.strike).v.th < 0) => ~out.ok

\* A malformed symbol: no digit, an empty underlying, fewer than 7 characters
\* from the first digit on, a type character other than C or P, or a strike
\* part that is not made of digits.
Malformed(symbol) ==
    LET i == FirstDigit(symbol) IN
    \/ i = 0
    \/ i = 1
    \/ Len(symbol) - i + 1 < 7
    \/ <<symbol[i + 6]>> \notin TypeLetters
    \/ Len(symbol) = i + 6
    \/ ~AllDigits(SubSeq(symbol, i + 7, Len(symbol)))

\* C17 (as claimed): parse_occ_symbol returns None for every malformed symbol.
C17_MalformedNeverDecoded ==
    (fn = "parse_occ_symbol" /\ Malformed(arg.symbol)) => ~out.ok

\* C18: the suggested strike is one of the listed strikes, none is nearer to
\* the last price, and it is the lower one of two that are equally near.
C18_NearestStrikeLowerOnTie ==
    fn = "suggested_strike" =>
        LET S == arg.calls \cup arg.puts
            s == out.suggested_strike
        IN /\ s \in S
           /\ \A t \in S :
                 /\ Abs(s - arg.last_price) <= Abs(t - arg.last_price)
                 /\ Abs(s - arg.last_price) = Abs(t - arg.last_price) => s <= t

\* Two strikes are equally near, and the lower one is suggested.
C18_Witness ==
    /\ fn = "suggested_strike"
    /\ \E t \in arg.calls \cup arg.puts :
         /\ t > out.suggested_strike
         /\ Abs(t - arg.last_price) = Abs(out.suggested_strike - arg.last_price)
    /\ Len(out.sorted_strikes) >= 3

\* The positions of the response that are in the target symbol.
PositionsIn(a) ==
    IF a.all_positions.success
    THEN {i \in 1..Len(a.all_positions.data) :
             a.all_positions.data[i].symbol = a.target_symbol}
    ELSE {}

\* The signed quantity a position states is negative / positive.
Short(pos) == "qty" \in DOMAIN pos /\ Negative(float_text(pos.qty).v)
Long(pos)  == "qty" \in DOMAIN pos /\ Positive(float_text(pos.qty).v)

-----------------------------------------------------------------------------
(* The claims on the round trip (SpecTrip) *)

\* The closing workflow of place_and_monitor_order (lines 486-549).
ClosingStages == {"chain", "prompt", "place_closing", "closing_session"}

\* The place calls made to close a filled order.
ClosingCalls == {i \in 1..Len(hist) : hist[i].op = "place" /\ hist[i].closing}

\* The session returned FILLED for an order of intent open that was not itself
\* placed to close one.
OpenFill(e) ==
    e.op = "returned" /\ e.status = "FILLED" /\ e.intent = "open" /\ ~e.closing

\* C11: the closing of a position starts exactly when the session of the order
\* returns FILLED and the order's intent is open: the closing workflow is
\* entered (or, for an adopted order, the closing order placed) at that return
\* and at no other; a closing place call directly follows such a return, so
\* none follows an order of intent close or a session that returned CANCELED,
\* EXPIRED or REJECTED or raised; and after the session of a closing order
\* nothing more is placed.
C11_ClosingOnlyAfterOpenFill ==
    /\ [](/\ \A i \in ClosingCalls : i > 1 /\ OpenFill(hist[i - 1])
          /\ Cardinality(ClosingCalls) <= 1
          /\ trip \in ClosingStages =>
                /\ frame.position_intent = "open" /\ frame.status = "FILLED"
                /\ \E i \in 1..Len(hist) : OpenFill(hist[i])
          /\ \A i \in 1..Len(hist) :
                (hist[i].op = "returned" /\ (hist[i].closing \/ hist[i].intent = "close"))
                    => i = Len(hist) /\ trip = "end")
    /\ [][(trip = "session" /\ trip' # trip) =>
            (trip' = "chain" <=>
                (result = "FILLED" /\ exc = None /\ frame.position_intent = "open"))]_vars
    /\ [][(trip = "adopted_session" /\ trip' # trip) =>
            (trip' = "place" <=>
                (result = "FILLED" /\ exc = None /\ frame.position_intent = "open"))]_vars
    /\ [][(trip \in {"session", "adopted_session", "closing_session"} /\ trip' # trip) =>
            trip' \in {"chain", "place", "end"}]_vars

\* An order from atrade1_main filled, its closing order was placed and filled
\* in a session of its own, and nothing followed.
C11_Witness ==
    /\ trip = "end" /\ frame.by = "atrade1_main"
    /\ Len(hist) = 4
    /\ OpenFill(hist[2])
    /\ hist[3].op = "place" /\ hist[3].closing /\ hist[3].ok
    /\ hist[4].op = "returned" /\ hist[4].status = "FILLED" /\ hist[4].closing

\* C13 (as claimed): when the answer to the closing prompt is the skip
\* sentinel or is no number, no place call is made for the closing; otherwise
\* one place call is made, with the symbol and the quantity of the filled
\* order, the other side and the entered price, and when it succeeds a session
\* monitors the id it returned.
C13_ClosingPlaceCall ==
    (frame.by = "atrade1_main" /\ frame.answer # None) =>
        IF lower(frame.answer) = "s" \/ frame.answer \notin NumericAnswers
        THEN ClosingCalls = {} /\ trip = "end"
        ELSE /\ Cardinality(ClosingCalls) <= 1
             /\ trip # "place_closing" => Cardinality(ClosingCalls) = 1
             /\ \A i \in ClosingCalls :
                   /\ hist[i].symbol = hist[1].symbol /\ hist[i].qty = hist[1].qty
                   /\ hist[i].side # hist[1].side /\ hist[i].side \in {"buy", "sell"}
                   /\ hist[i].price = PriceStated(frame.answer)
                   /\ IF hist[i].ok
                      THEN \/ trip = "closing_session" /\ otm.symbol = hist[i].symbol
                              /\ pc = "entry" => otm.id = hist[i].id
                           \/ trip = "end" /\ Len(hist) = i + 1
                                /\ hist[i + 1].op = "returned"
                      ELSE trip = "end" /\ Len(hist) = i

\* C24 (as claimed): a closing order is placed only after the user answered the
\* closing-price prompt (which follows the display of the quote), and at the
\* price that answer states.
C24_ClosingAtEnteredPrice ==
    \A i \in ClosingCalls :
        /\ frame.answer # None
        /\ float(frame.answer).ok
        /\ hist[i].price = float(frame.answer).v

\* The response is a successful one that holds a quote for the symbol where the
\* monitor reads it: data.snapshots[symbol].latestQuote.
HoldsQuote(chain_response, symbol) ==
    /\ chain_response.success
    /\ "snapshots" \in DOMAIN chain_response.data
    /\ chain_response.data.snapshots.symbol = symbol
    /\ "latestQuote" \in DOMAIN chain_response.data.snapshots

\* C25 (as claimed): when the chain response of the closing workflow holds a
\* quote for the filled symbol under data.snapshots[symbol].latestQuote, the
\* workflow reaches the closing-price prompt.
C25_ClosingReadsSameQuote ==
    HoldsQuote(frame.chain_response, frame.occ_symbol) =>
        (trip = "prompt" \/ frame.answer # None)

\* The orders that are working at the broker.
Working ==
    {i \in OrderIds : broker[i] \in Statuses \ (TerminalStatuses \cup {"replaced"})}

\* C27: at most one order of a round trip is working at the broker at any
\* time: the place call of a cancel-and-replace is made when a status query has
\* reported the tracked order canceled, the place call of a closing order when
\* the session of the opening order has returned FILLED, and at either call no
\* order of the round trip is working.
C27_OneWorkingOrder ==
    /\ Cardinality(Working) <= 1
    /\ pc = "car_place" =>
          /\ Working = {}
          /\ "canceled" \in reported /\ broker[order_id] = "canceled"
    /\ (trip = "place_closing" \/ (trip = "place" /\ frame.by = "adoption")) =>
          /\ Working = {}
          /\ OpenFill(hist[Len(hist)])

\* The closing order is the one working order, after the opening order was
\* replaced once and filled.
C27_Witness ==
    /\ trip = "closing_session" /\ pc = "report"
    /\ Working = {otm.id} /\ otm.id = MaxOrders
    /\ \E i \in OrderIds : broker[i] = "filled"

====
